---- MODULE Spec2Model ----
(***************************************************************************)
(* DPNSContestedNamesScreen (src/src/ui/dpns_contested_names_screen.rs):   *)
(* the cached list of contested names, the sort projection, the single     *)
(* status message with its 5 second expiry, and the vote popup.            *)
(*                                                                         *)
(* Encodings.  Option<T>: <<>> is None, <<v>> is Some(v).  A String that   *)
(* is compared with cmp (normalized_contested_name) is the sequence of its *)
(* bytes.  Result<Vec<T>, E>: [ok |-> TRUE, list |-> l] or [ok |-> FALSE]. *)
(* Time is counted in ticks, TicksPerSecond of them to a second.           *)
(***************************************************************************)
EXTENDS Integers, Sequences, FiniteSets, TLC

VARIABLES
    contested_names,        \* Arc<Mutex<Vec<ContestedName>>>: the cached contests
    voting_identities,      \* Arc<Vec<QualifiedIdentity>>
    user_identities,        \* Arc<Vec<QualifiedIdentity>>
    error_message,          \* Option<(String, MessageType, DateTime<Utc>)>
    sort_column,            \* SortColumn
    sort_order,             \* SortOrder
    show_vote_popup_info,   \* Option<(String, ContestedResourceTask)>
    now,                    \* the clock Utc::now() reads, in ticks
    action,                 \* the AppAction the call just made returned (ui() only)
    table,                  \* the sorted clone the call just made drew as rows
    status_line,            \* the status label the call just made drew
    op                      \* the call just made on the screen, with its inputs

vars == <<contested_names, voting_identities, user_identities, error_message,
          sort_column, sort_order, show_vote_popup_info, now, action, table,
          status_line, op>>

----------------------------------------------------------------------------
(* Bounds of the model *)

MaxLen == 3
MaxSeconds == 7
TicksPerSecond == 2
MaxTime == MaxSeconds * TicksPerSecond

----------------------------------------------------------------------------
(* Option and Result *)

None == <<>>
Some(v) == <<v>>
IsSome(o) == o # <<>>
Unwrap(o) == o[1]

Ok(l) == [ok |-> TRUE, list |-> l]
Err == [ok |-> FALSE]

\* Result::unwrap_or_default / unwrap_or_else(|e| Vec::new())
unwrap_or_default(r) == IF r.ok THEN r.list ELSE <<>>

----------------------------------------------------------------------------
(* Ordering, as core::cmp::Ordering *)

\* Ordering::reverse
Ordering_reverse(o) ==
    CASE o = "Less" -> "Greater"
      [] o = "Greater" -> "Less"
      [] OTHER -> "Equal"

\* u32/u64 cmp
IntCmp(x, y) == IF x < y THEN "Less" ELSE IF x > y THEN "Greater" ELSE "Equal"

\* Option<u32>::cmp: None is less than every Some, Some compares the values
OptionCmp(a, b) ==
    CASE a = None /\ b = None -> "Equal"
      [] a = None /\ b # None -> "Less"
      [] a # None /\ b = None -> "Greater"
      [] OTHER -> IntCmp(Unwrap(a), Unwrap(b))

\* String::cmp: lexicographic on the bytes, a proper prefix is less
RECURSIVE StringCmp(_, _)
StringCmp(s, t) ==
    IF s = <<>> /\ t = <<>> THEN "Equal"
    ELSE IF s = <<>> THEN "Less"
    ELSE IF t = <<>> THEN "Greater"
    ELSE IF Head(s) # Head(t) THEN IntCmp(Head(s), Head(t))
    ELSE StringCmp(Tail(s), Tail(t))

----------------------------------------------------------------------------
(* The sort projection *)

SortColumns == {"ContestedName", "LockedVotes", "AbstainVotes", "EndingTime", "LastUpdated"}
SortOrders == {"Ascending", "Descending"}

\* the match on self.sort_column inside the sort_by closure
ColumnCmp(a, b, column) ==
    CASE column = "ContestedName" ->
            StringCmp(a.normalized_contested_name, b.normalized_contested_name)
      [] column = "LockedVotes" -> OptionCmp(a.locked_votes, b.locked_votes)
      [] column = "AbstainVotes" -> OptionCmp(a.abstain_votes, b.abstain_votes)
      [] column = "EndingTime" -> OptionCmp(a.end_time, b.end_time)
      [] column = "LastUpdated" -> OptionCmp(a.last_updated, b.last_updated)

\* the whole closure: the column's order, reversed when Descending
SortCmp(a, b, column, order) ==
    IF order = "Descending"
    THEN Ordering_reverse(ColumnCmp(a, b, column))
    ELSE ColumnCmp(a, b, column)

\* (an insertion that puts x before the elements it ties with)
RECURSIVE InsertUnstable(_, _, _, _)
InsertUnstable(sorted, x, column, order) ==
    IF sorted = <<>> THEN <<x>>
    ELSE IF SortCmp(x, Head(sorted), column, order) # "Greater"
         THEN <<x>> \o sorted
         ELSE <<Head(sorted)>> \o InsertUnstable(Tail(sorted), x, column, order)

\* One insertion step of the stable sort: x, which came after every element
\* of the sorted prefix, goes before the first element it is less than, so
\* after every element it ties with.
RECURSIVE Insert(_, _, _, _)
Insert(sorted, x, column, order) ==
    IF sorted = <<>> THEN <<x>>
    ELSE IF SortCmp(x, Head(sorted), column, order) = "Less"
         THEN <<x>> \o sorted
         ELSE <<Head(sorted)>> \o Insert(Tail(sorted), x, column, order)

\* Vec::sort_by (a stable sort) with the closure of sort_contested_names
RECURSIVE sort_contested_names(_, _, _)
sort_contested_names(list, column, order) ==
    IF list = <<>> THEN <<>>
    ELSE Insert(sort_contested_names(SubSeq(list, 1, Len(list) - 1), column, order),
                list[Len(list)], column, order)

----------------------------------------------------------------------------
(* Data: contests, identities, messages *)

\* normalized_contested_name values, as bytes: "a", "ab", "b"
Names == {<<97>>, <<97, 98>>, <<98>>}

Contestant(id, name, votes) == [id |-> id, name |-> name, votes |-> votes]

\* model::contested_name::ContestedName, the fields the screen reads
ContestedName(name, locked, abstain, end, updated, contestants) ==
    [normalized_contested_name |-> name, locked_votes |-> locked,
     abstain_votes |-> abstain, end_time |-> end, last_updated |-> updated,
     contestants |-> contestants]

\* The values a contest is cached with: not fetched yet, and three fetched
\* snapshots whose columns tie and differ in different places.
Profiles ==
    { [locked |-> None, abstain |-> None, end |-> None, updated |-> None,
       contestants |-> None],
      [locked |-> Some(0), abstain |-> Some(1), end |-> Some(2), updated |-> Some(1),
       contestants |-> Some(<<Contestant("i1", "alice", 1)>>)],
      [locked |-> Some(1), abstain |-> Some(0), end |-> Some(2), updated |-> Some(2),
       contestants |-> Some(<<Contestant("i1", "alice", 0), Contestant("i2", "bob", 2)>>)],
      [locked |-> Some(1), abstain |-> Some(1), end |-> Some(1), updated |-> None,
       contestants |-> Some(<<>>)] }

ContestPool ==
    { ContestedName(n, p.locked, p.abstain, p.end, p.updated, p.contestants) :
        n \in Names, p \in Profiles }

\* The contests the vote, refresh and frame claims run on
MainPool ==
    { c \in ContestPool :
        /\ c.normalized_contested_name \in {<<97>>, <<98>>}
        /\ \/ c.normalized_contested_name = <<97>> /\ c.locked_votes # Some(1)
           \/ c.normalized_contested_name = <<98>> /\ c.locked_votes = Some(0) }

MaxLenMain == 2

DistinctNames(l) ==
    \A i, j \in 1..Len(l) :
        i # j => l[i].normalized_contested_name # l[j].normalized_contested_name

\* The lists ongoing_contested_names() can return: one entry per name
ListsOver(pool, maxlen) ==
    UNION { { l \in [1..n -> pool] : DistinctNames(l) } : n \in 0..maxlen }

ResultsOver(lists) == { Ok(l) : l \in lists } \cup {Err}

SortResults == ResultsOver(ListsOver(ContestPool, MaxLen))
MainResults == ResultsOver(ListsOver(MainPool, MaxLenMain))
EmptyResults == {Ok(<<>>)}

\* get_local_voting_identities / get_local_user_identities
VotingResults == {Err, Ok(<<"v1">>), Ok(<<"v1", "v2">>)}
UserResults == {Err, Ok(<<"u1">>)}
NoIdentityResults == {Ok(<<>>)}

MessageTypes == {"Error", "Info", "Success"}
Messages == {"m1", "m2"}
MainMessages == {"m1"}

----------------------------------------------------------------------------
(* AppAction *)

NoneAction == [kind |-> "None"]
QueryAction ==
    [kind |-> "BackendTask", task |-> [kind |-> "QueryDPNSContestedResources"]]
RegisterAction == [kind |-> "AddScreen", screen |-> "RegisterDpnsName"]
LoadIdentityAction ==
    [kind |-> "AddScreen", screen |-> "AddExistingIdentityScreen", identity_type |-> "Evonode"]

\* ContestedResourceTask::VoteOnDPNSName(name, choice, voters)
VoteOnDPNSName(name, choice, voters) ==
    [kind |-> "VoteOnDPNSName", contested_name |-> name, vote_choice |-> choice,
     voters |-> voters]
VoteAction(task) == [kind |-> "BackendTask", task |-> task]

\* ResourceVoteChoice
Lock == [kind |-> "Lock"]
Abstain == [kind |-> "Abstain"]
TowardsIdentity(id) == [kind |-> "TowardsIdentity", id |-> id]

\* action |= ...: within one frame at most one button is clicked, so at most
\* one side is not AppAction::None
AppActionOr(a, b) == IF b = NoneAction THEN a ELSE b

----------------------------------------------------------------------------
(* The status message *)

ExpirySeconds == 5

\* Duration::num_seconds: whole seconds, the fraction dropped
num_seconds(elapsed) == elapsed \div TicksPerSecond

StatusMessage(message, message_type, timestamp) ==
    [message |-> message, message_type |-> message_type, timestamp |-> timestamp]

\* dismiss_error: self.error_message = None
dismiss_error == None

\* (an expiry that fires at 5 whole seconds already)
check_error_expiration_at_5(em, t) ==
    IF IsSome(em) /\ num_seconds(t - Unwrap(em).timestamp) >= ExpirySeconds
    THEN dismiss_error
    ELSE em

\* check_error_expiration: the message, or None once it is more than 5 whole
\* seconds old at time t
check_error_expiration(em, t) ==
    IF IsSome(em) /\ num_seconds(t - Unwrap(em).timestamp) > ExpirySeconds
    THEN dismiss_error
    ELSE em

\* (a post that does not overwrite a pending message)
posted_message_keeps_pending(em, message, message_type, t) ==
    IF IsSome(em) THEN em ELSE Some(StatusMessage(message, message_type, t))

\* display_message: the slot as it is after the call
posted_message(em, message, message_type, t) ==
    Some(StatusMessage(message, message_type, t))

\* (a label drawn for Error messages only)
render_status_errors_only(em) ==
    IF IsSome(em) /\ Unwrap(em).message_type = "Error"
    THEN Some([message |-> Unwrap(em).message, message_type |-> Unwrap(em).message_type])
    ELSE None

\* ui(): the status label drawn from the message that survived the expiry
\* check; a Success message draws nothing
render_status(em) ==
    IF IsSome(em) /\ Unwrap(em).message_type # "Success"
    THEN Some([message |-> Unwrap(em).message, message_type |-> Unwrap(em).message_type])
    ELSE None

----------------------------------------------------------------------------
(* Sorting and the table *)

\* (a toggle that keeps the direction when the column changes)
toggle_sort_keeps_order(column, order, clicked) ==
    IF column = clicked
    THEN [column |-> column,
          order |-> IF order = "Ascending" THEN "Descending" ELSE "Ascending"]
    ELSE [column |-> clicked, order |-> order]

\* toggle_sort: the (column, order) after a click on a header
toggle_sort(column, order, clicked) ==
    IF column = clicked
    THEN [column |-> column,
          order |-> IF order = "Ascending" THEN "Descending" ELSE "Ascending"]
    ELSE [column |-> clicked, order |-> "Ascending"]

\* (a sort of the locked list itself instead of its clone)
clone_and_sort_in_place(cache, column, order) ==
    [rows |-> sort_contested_names(cache, column, order),
     cache |-> sort_contested_names(cache, column, order)]

\* render_table, lines 177-184: the rows are a sorted clone, the cache stays
clone_and_sort(cache, column, order) ==
    [rows |-> sort_contested_names(cache, column, order), cache |-> cache]

\* (a refresh that keeps the cached list when the store fails)
refreshed_keeps_on_error(cache, r) == IF r.ok THEN r.list ELSE cache

\* (a refresh that merges: cached contests the store did not return stay)
refreshed_merges(cache, r) ==
    IF r.ok
    THEN r.list \o SelectSeq(cache, LAMBDA c :
            \A i \in 1..Len(r.list) :
                r.list[i].normalized_contested_name # c.normalized_contested_name)
    ELSE <<>>

\* refresh, lines 432-436: the cache after the store answered r
refreshed(cache, r) == unwrap_or_default(r)

----------------------------------------------------------------------------
(* The vote popup *)

\* the popup a click on a row button opens; the stored voter list is vec![]
PopupInfo(name, choice) == Some(VoteOnDPNSName(name, choice, <<>>))

\* (a popup whose Cancel button does not close it)
show_vote_popup_cancel_stays(info, identities, click) ==
    IF identities = <<>>
    THEN CASE click.kind = "PopupLoad" ->
                [info |-> None, app_action |-> LoadIdentityAction]
           [] OTHER -> [info |-> info, app_action |-> NoneAction]
    ELSE LET task == Unwrap(info) IN
         CASE click.kind = "PopupIdentity" ->
                [info |-> None,
                 app_action |-> VoteAction(VoteOnDPNSName(task.contested_name,
                     task.vote_choice, Append(task.voters, identities[click.index])))]
           [] click.kind = "PopupAll" ->
                [info |-> None,
                 app_action |-> VoteAction(VoteOnDPNSName(task.contested_name,
                     task.vote_choice, task.voters \o identities))]
           [] OTHER -> [info |-> info, app_action |-> NoneAction]

\* (a popup whose identity buttons all vote with the first identity)
show_vote_popup_first_identity(info, identities, click) ==
    IF identities = <<>>
    THEN CASE click.kind = "PopupLoad" ->
                [info |-> None, app_action |-> LoadIdentityAction]
           [] click.kind = "PopupCancel" ->
                [info |-> None, app_action |-> NoneAction]
           [] OTHER -> [info |-> info, app_action |-> NoneAction]
    ELSE LET task == Unwrap(info) IN
         CASE click.kind = "PopupIdentity" ->
                [info |-> None,
                 app_action |-> VoteAction(VoteOnDPNSName(task.contested_name,
                     task.vote_choice, Append(task.voters, identities[1])))]
           [] click.kind = "PopupAll" ->
                [info |-> None,
                 app_action |-> VoteAction(VoteOnDPNSName(task.contested_name,
                     task.vote_choice, task.voters \o identities))]
           [] click.kind = "PopupCancel" ->
                [info |-> None, app_action |-> NoneAction]
           [] OTHER -> [info |-> info, app_action |-> NoneAction]

\* (a popup that stays open after it returned the vote task)
show_vote_popup_stays_after_vote(info, identities, click) ==
    IF identities = <<>>
    THEN CASE click.kind = "PopupLoad" ->
                [info |-> None, app_action |-> LoadIdentityAction]
           [] click.kind = "PopupCancel" ->
                [info |-> None, app_action |-> NoneAction]
           [] OTHER -> [info |-> info, app_action |-> NoneAction]
    ELSE LET task == Unwrap(info) IN
         CASE click.kind = "PopupIdentity" ->
                [info |-> info,
                 app_action |-> VoteAction(VoteOnDPNSName(task.contested_name,
                     task.vote_choice, Append(task.voters, identities[click.index])))]
           [] click.kind = "PopupAll" ->
                [info |-> info,
                 app_action |-> VoteAction(VoteOnDPNSName(task.contested_name,
                     task.vote_choice, task.voters \o identities))]
           [] click.kind = "PopupCancel" ->
                [info |-> None, app_action |-> NoneAction]
           [] OTHER -> [info |-> info, app_action |-> NoneAction]

\* (a popup without the branch for an empty identity list)
show_vote_popup_no_empty_branch(info, identities, click) ==
    LET task == Unwrap(info) IN
    CASE click.kind = "PopupIdentity" ->
           [info |-> None,
            app_action |-> VoteAction(VoteOnDPNSName(task.contested_name,
                task.vote_choice, Append(task.voters, identities[click.index])))]
      [] click.kind \in {"PopupAll", "PopupLoad"} ->
           [info |-> None,
            app_action |-> VoteAction(VoteOnDPNSName(task.contested_name,
                task.vote_choice, task.voters \o identities))]
      [] click.kind = "PopupCancel" ->
           [info |-> None, app_action |-> NoneAction]
      [] OTHER -> [info |-> info, app_action |-> NoneAction]

\* show_vote_popup: the popup and the returned AppAction after the click.
\* Called only while show_vote_popup_info is Some.
show_vote_popup(info, identities, click) ==
    IF identities = <<>>
    THEN CASE click.kind = "PopupLoad" ->
                [info |-> None, app_action |-> LoadIdentityAction]
           [] click.kind = "PopupCancel" ->
                [info |-> None, app_action |-> NoneAction]
           [] OTHER -> [info |-> info, app_action |-> NoneAction]
    ELSE LET task == Unwrap(info) IN
         CASE click.kind = "PopupIdentity" ->
                [info |-> None,
                 app_action |-> VoteAction(VoteOnDPNSName(task.contested_name,
                     task.vote_choice, Append(task.voters, identities[click.index])))]
           [] click.kind = "PopupAll" ->
                [info |-> None,
                 app_action |-> VoteAction(VoteOnDPNSName(task.contested_name,
                     task.vote_choice, task.voters \o identities))]
           [] click.kind = "PopupCancel" ->
                [info |-> None, app_action |-> NoneAction]
           [] OTHER -> [info |-> info, app_action |-> NoneAction]

\* the buttons of the table body: the popup after a click on a row
row_click(info, rows, click) ==
    CASE click.kind = "RowLock" ->
            PopupInfo(rows[click.row].normalized_contested_name, Lock)
      [] click.kind = "RowAbstain" ->
            PopupInfo(rows[click.row].normalized_contested_name, Abstain)
      [] click.kind = "RowContestant" ->
            PopupInfo(rows[click.row].normalized_contested_name,
                TowardsIdentity(Unwrap(rows[click.row].contestants)[click.contestant].id))
      [] OTHER -> info

\* add_top_panel: the action of the right button that was clicked
add_top_panel(click) ==
    CASE click.kind = "TopRefresh" -> QueryAction
      [] click.kind = "TopRegister" -> RegisterAction
      [] OTHER -> NoneAction

----------------------------------------------------------------------------
(* Clicks: the one button, if any, clicked during a frame *)

MaxIdentities == 2
MaxContestants == 2

NoClick == [kind |-> "None"]
HeaderClicks == { [kind |-> "Header", column |-> c] : c \in SortColumns }
MainHeaderClicks ==
    { [kind |-> "Header", column |-> c] : c \in {"ContestedName", "LockedVotes"} }
StatusClicks == { [kind |-> "Dismiss"] }
TopClicks == { [kind |-> "TopRefresh"], [kind |-> "TopRegister"] }
PopupClicks ==
    { [kind |-> "PopupLoad"], [kind |-> "PopupCancel"], [kind |-> "PopupAll"] }
    \cup { [kind |-> "PopupIdentity", index |-> i] : i \in 1..MaxIdentities }
RowClicks ==
    { [kind |-> k, row |-> i] : k \in {"RowLock", "RowAbstain"}, i \in 1..MaxLen }
    \cup { [kind |-> "RowContestant", row |-> i, contestant |-> j] :
             i \in 1..MaxLen, j \in 1..MaxContestants }
BodyRefreshClicks(results) == { [kind |-> "BodyRefresh", result |-> r] : r \in results }

\* whether the frame draws the button: status is the label drawn, rows the
\* table rows, empty whether the cache is empty
ButtonShown(click, status, info, identities, users, rows, empty) ==
    CASE click.kind = "None" -> TRUE
      [] click.kind = "TopRefresh" -> TRUE
      [] click.kind = "TopRegister" -> users # <<>>
      [] click.kind = "Dismiss" -> IsSome(status)
      [] click.kind = "PopupLoad" -> IsSome(info) /\ identities = <<>>
      [] click.kind = "PopupCancel" -> IsSome(info)
      [] click.kind = "PopupAll" -> IsSome(info) /\ identities # <<>>
      [] click.kind = "PopupIdentity" ->
            IsSome(info) /\ click.index \in 1..Len(identities)
      [] click.kind = "Header" -> ~empty
      [] click.kind \in {"RowLock", "RowAbstain"} -> click.row \in 1..Len(rows)
      [] click.kind = "RowContestant" ->
            /\ click.row \in 1..Len(rows)
            /\ IsSome(rows[click.row].contestants)
            /\ click.contestant \in 1..Len(Unwrap(rows[click.row].contestants))
      [] click.kind = "BodyRefresh" -> empty

----------------------------------------------------------------------------
(* The operations of the screen *)

\* what a call that is not a frame returns and draws: nothing
NoFrame ==
    /\ action' = NoneAction
    /\ table' = <<>>
    /\ status_line' = None

\* DPNSContestedNamesScreen::new
new(r, rv, ru) ==
    /\ contested_names = unwrap_or_default(r)
    /\ voting_identities = unwrap_or_default(rv)
    /\ user_identities = unwrap_or_default(ru)
    /\ error_message = None
    /\ sort_column = "ContestedName"
    /\ sort_order = "Ascending"
    /\ show_vote_popup_info = None
    /\ now = 0
    /\ action = NoneAction
    /\ table = <<>>
    /\ status_line = None
    /\ op = [name |-> "new", arg |-> <<r, rv, ru>>]

\* time passes between two calls
Tick(d) ==
    /\ now + d <= MaxTime
    /\ now' = now + d
    /\ op' = [name |-> "Tick", arg |-> d]
    /\ NoFrame
    /\ UNCHANGED <<contested_names, voting_identities, user_identities, error_message,
                   sort_column, sort_order, show_vote_popup_info>>

\* ScreenLike::display_message
display_message(message, message_type) ==
    /\ error_message' = posted_message(error_message, message, message_type, now)
    /\ op' = [name |-> "display_message", arg |-> <<message, message_type>>]
    /\ NoFrame
    /\ UNCHANGED <<contested_names, voting_identities, user_identities, sort_column,
                   sort_order, show_vote_popup_info, now>>

\* ScreenLike::refresh
refresh(r) ==
    /\ contested_names' = refreshed(contested_names, r)
    /\ op' = [name |-> "refresh", arg |-> r]
    /\ NoFrame
    /\ UNCHANGED <<voting_identities, user_identities, error_message, sort_column,
                   sort_order, show_vote_popup_info, now>>

\* (an arrival that keeps the old identities when a read fails)
refresh_on_arrival_keeps_on_error(rv, ru) ==
    /\ voting_identities' = IF rv.ok THEN rv.list ELSE voting_identities
    /\ user_identities' = IF ru.ok THEN ru.list ELSE user_identities
    /\ op' = [name |-> "refresh_on_arrival", arg |-> <<rv, ru>>]
    /\ NoFrame
    /\ UNCHANGED <<contested_names, error_message, sort_column, sort_order,
                   show_vote_popup_info, now>>

\* ScreenLike::refresh_on_arrival
refresh_on_arrival(rv, ru) ==
    /\ voting_identities' = unwrap_or_default(rv)
    /\ user_identities' = unwrap_or_default(ru)
    /\ op' = [name |-> "refresh_on_arrival", arg |-> <<rv, ru>>]
    /\ NoFrame
    /\ UNCHANGED <<contested_names, error_message, sort_column, sort_order,
                   show_vote_popup_info, now>>

\* ScreenLike::ui: one frame, with the one button clicked during it
ui(click) ==
    LET em1 == check_error_expiration(error_message, now)
        status == render_status(em1)
        popup == IF IsSome(show_vote_popup_info)
                 THEN show_vote_popup(show_vote_popup_info, voting_identities, click)
                 ELSE [info |-> show_vote_popup_info, app_action |-> NoneAction]
        empty == contested_names = <<>>
        rendered == IF empty
                    THEN [rows |-> <<>>, cache |-> contested_names]
                    ELSE clone_and_sort(contested_names, sort_column, sort_order)
        sorting == IF click.kind = "Header"
                   THEN toggle_sort(sort_column, sort_order, click.column)
                   ELSE [column |-> sort_column, order |-> sort_order]
    IN  /\ ButtonShown(click, status, show_vote_popup_info, voting_identities,
                       user_identities, rendered.rows, empty)
        /\ error_message' = IF click.kind = "Dismiss" THEN dismiss_error ELSE em1
        /\ status_line' = status
        /\ action' = AppActionOr(add_top_panel(click), popup.app_action)
        /\ show_vote_popup_info' = row_click(popup.info, rendered.rows, click)
        /\ table' = rendered.rows
        /\ sort_column' = sorting.column
        /\ sort_order' = sorting.order
        /\ contested_names' = IF click.kind = "BodyRefresh"
                              THEN refreshed(rendered.cache, click.result)
                              ELSE rendered.cache
        /\ op' = [name |-> "ui", arg |-> click]
        /\ UNCHANGED <<voting_identities, user_identities, now>>

----------------------------------------------------------------------------
(* Specifications *)

\* a jump of the clock that takes any pending message past its expiry
ExpiryJump == (ExpirySeconds + 1) * TicksPerSecond

\* The whole screen, on the small pool of contests and two of the headers
Init == \E r \in MainResults, rv \in VotingResults, ru \in UserResults : new(r, rv, ru)

Next ==
    \/ \E d \in {ExpiryJump} : Tick(d)
    \/ \E m \in MainMessages, t \in MessageTypes : display_message(m, t)
    \/ \E r \in MainResults : refresh(r)
    \/ \E rv \in VotingResults, ru \in UserResults : refresh_on_arrival(rv, ru)
    \/ \E c \in {NoClick} \cup MainHeaderClicks \cup StatusClicks \cup TopClicks
                \cup PopupClicks \cup RowClicks \cup BodyRefreshClicks(MainResults) :
          ui(c)

Spec == Init /\ [][Next]_vars

\* The status message, tick by tick
InitStatus ==
    \E r \in EmptyResults, rv \in NoIdentityResults, ru \in NoIdentityResults :
        new(r, rv, ru)

NextStatus ==
    \/ \E d \in {1} : Tick(d)
    \/ \E m \in Messages, t \in MessageTypes : display_message(m, t)
    \/ \E c \in {NoClick} \cup StatusClicks : ui(c)

SpecStatus == InitStatus /\ [][NextStatus]_vars

\* The sort projection, on every list over the whole pool of contests
InitSort ==
    \E r \in SortResults, rv \in NoIdentityResults, ru \in NoIdentityResults :
        new(r, rv, ru)

NextSort == \E c \in {NoClick} \cup HeaderClicks : ui(c)

SpecSort == InitSort /\ [][NextSort]_vars

----------------------------------------------------------------------------
(* Claims *)

IsFrame(o) == o.name = "ui"
IsHeaderClick(o) == o.name = "ui" /\ o.arg.kind = "Header"
NameOf(c) == c.normalized_contested_name

\* C1: in the rows a frame draws, of two contests that tie on the sort
\* column the one with the lexicographically smaller normalized name comes
\* first, whatever their order in the cached list.
C1_TiesOrderedByName ==
    (IsFrame(op) /\ op.arg.kind = "None") =>
        \A i, j \in 1..Len(table) :
            (i < j /\ ColumnCmp(table[i], table[j], sort_column) = "Equal")
                => StringCmp(NameOf(table[i]), NameOf(table[j])) # "Greater"

\* C3: a click on the header of the current sort column flips the direction
\* and keeps the column; a click on another header selects that column,
\* Ascending, whatever the direction was.  The screen starts at
\* (ContestedName, Ascending), so two clicks on Contested Name return there
\* and a following click on Locked Votes gives (LockedVotes, Ascending).
C3_ToggleStep ==
    IsHeaderClick(op') =>
        IF op'.arg.column = sort_column
        THEN /\ sort_column' = sort_column
             /\ sort_order' # sort_order
             /\ sort_order' \in SortOrders
        ELSE /\ sort_column' = op'.arg.column
             /\ sort_order' = "Ascending"

C3_ToggleSort ==
    /\ sort_column = "ContestedName" /\ sort_order = "Ascending"
    /\ [][C3_ToggleStep]_vars

\* a click on Locked Votes while sorted Descending by another column
C3_Witness ==
    /\ IsHeaderClick(op) /\ op.arg.column = "LockedVotes"
    /\ sort_column = "LockedVotes" /\ sort_order = "Ascending"
    /\ table # <<>>
    /\ sort_contested_names(contested_names, "ContestedName", "Descending") = table
    /\ sort_contested_names(contested_names, "ContestedName", "Ascending") # table

\* C10: the rows a frame draws are a fixed point of the sort (sorting them
\* again with the same column and direction changes nothing), and a frame
\* that follows a frame without a click, so on the same cached list with the
\* same column and direction, draws the same rows.
C10_IdempotentStep ==
    IsFrame(op') =>
        /\ sort_contested_names(table', sort_column, sort_order) = table'
        /\ (IsFrame(op) /\ op.arg.kind = "None") => table' = table

C10_SortIdempotent == [][C10_IdempotentStep]_vars

\* three rows, two of them tied on the sort column, drawn in an order that
\* is not the cached one
C10_Witness ==
    /\ IsFrame(op) /\ op.arg.kind = "None"
    /\ Len(table) = 3
    /\ table # contested_names
    /\ \E i \in 1..2 : ColumnCmp(table[i], table[i + 1], sort_column) = "Equal"

Age(em, t) == t - Unwrap(em).timestamp

\* C4: at a frame 4 seconds after the post the message is still the current
\* one, at a frame 6 seconds after the post it is gone, and the expiry check
\* never clears a message whose age does not exceed 5 seconds.
C4_ExpiryStep ==
    (IsFrame(op') /\ IsSome(error_message)) =>
        LET age == Age(error_message, now) IN
        /\ (age = 4 * TicksPerSecond /\ op'.arg.kind # "Dismiss")
              => error_message' = error_message
        /\ age = 6 * TicksPerSecond => error_message' = None
        /\ (error_message' = None /\ op'.arg.kind # "Dismiss")
              => age > ExpirySeconds * TicksPerSecond

C4_StatusExpiry == [][C4_ExpiryStep]_vars

\* a frame ran 4 seconds after the post and the message is still there
C4_Witness ==
    /\ IsFrame(op)
    /\ IsSome(error_message)
    /\ Age(error_message, now) = 4 * TicksPerSecond

LabelOf(em) ==
    Some([message |-> Unwrap(em).message, message_type |-> Unwrap(em).message_type])

\* C5, as claimed: after a frame, the message that is live (it survived the
\* expiry check and was not dismissed) is the status label the frame drew,
\* whatever its severity.
C5_LiveMessageShown ==
    (IsFrame(op) /\ IsSome(error_message)) => status_line = LabelOf(error_message)

\* C5, amended: after a frame, a live message is the status label the frame
\* drew if its severity is Error or Info; a live Success message stays in
\* the slot but the frame draws no status label for it.  The Dismiss button
\* belongs to a drawn label and empties the slot.
C5_LiveMessageShownUnlessSuccess ==
    IsFrame(op) =>
        /\ (IsSome(error_message) /\ Unwrap(error_message).message_type # "Success")
              => status_line = LabelOf(error_message)
        /\ (IsSome(error_message) /\ Unwrap(error_message).message_type = "Success")
              => status_line = None
        /\ (error_message = None /\ op.arg.kind # "Dismiss") => status_line = None
        /\ op.arg.kind = "Dismiss" => (IsSome(status_line) /\ error_message = None)

\* a frame that found a Success message posted 2 seconds before and drew no
\* status label
C5_Witness ==
    /\ IsFrame(op)
    /\ IsSome(error_message)
    /\ Unwrap(error_message).message_type = "Success"
    /\ Age(error_message, now) = 2 * TicksPerSecond
    /\ status_line = None

\* C6: the slot holds at most one message; a post leaves exactly the posted
\* message, with its severity and the time of the post, whatever was
\* pending; any other step leaves the slot as it was or empties it, so a
\* message that was overwritten never comes back.
C6_SlotStep ==
    /\ Len(error_message') <= 1
    /\ op'.name = "display_message" =>
          error_message' = Some(StatusMessage(op'.arg[1], op'.arg[2], now))
    /\ op'.name # "display_message" => error_message' \in {error_message, None}

C6_SingleSlot == [][C6_SlotStep]_vars

\* a second message posted later than the first possible post
C6_Witness ==
    /\ op.name = "display_message" /\ op.arg[1] = "m2"
    /\ now >= 2 * TicksPerSecond
    /\ error_message = Some(StatusMessage("m2", op.arg[2], now))

IsRefresh(o) == o.name = "refresh" \/ (o.name = "ui" /\ o.arg.kind = "BodyRefresh")
RefreshResult(o) == IF o.name = "refresh" THEN o.arg ELSE o.arg.result

\* C2, as claimed: a refresh whose read fails leaves the cached list as it
\* was.
C2_FailedRefreshStep ==
    (IsRefresh(op') /\ ~RefreshResult(op').ok) => contested_names' = contested_names

C2_FailedRefreshKeepsCache == [][C2_FailedRefreshStep]_vars

\* C2, amended: a refresh whose read fails replaces the cached list by the
\* empty list (the cache is as before only if it was empty already); the
\* sort state, the popup and the identities are unchanged.
C2_FailedRefreshEmptiesStep ==
    (IsRefresh(op') /\ ~RefreshResult(op').ok) =>
        /\ contested_names' = <<>>
        /\ UNCHANGED <<sort_column, sort_order, voting_identities, user_identities>>
        /\ op'.name = "refresh" => UNCHANGED <<error_message, show_vote_popup_info>>

C2_FailedRefreshEmptiesCache == [][C2_FailedRefreshEmptiesStep]_vars

\* refresh() was called, the read failed, the cache is empty
C2_Witness ==
    /\ op.name = "refresh" /\ ~op.arg.ok
    /\ contested_names = <<>>
    /\ sort_column = "LockedVotes"

\* C7: a refresh whose read succeeds leaves the cache equal to the returned
\* list, and a frame draws the cached list it finds whole: its rows are the
\* contests of that list, each once.
C7_WholesaleStep ==
    /\ (IsRefresh(op') /\ RefreshResult(op').ok)
          => contested_names' = RefreshResult(op').list
    /\ (IsFrame(op') /\ contested_names # <<>>) =>
          /\ Len(table') = Len(contested_names)
          /\ { table'[i] : i \in 1..Len(table') }
               = { contested_names[i] : i \in 1..Len(contested_names) }

C8_FrameStep == contested_names' # contested_names => IsRefresh(op')

C8_OnlyRefreshChangesCache == [][C8_FrameStep]_vars

\* a vote was dispatched from a frame whose rows are not in cache order
C8_Witness ==
    /\ IsFrame(op) /\ op.arg.kind = "PopupIdentity"
    /\ action.kind = "BackendTask" /\ action.task.kind = "VoteOnDPNSName"
    /\ Len(contested_names) = 2
    /\ table # contested_names

\* C9: a click on the popup's Cancel closes the popup, returns
\* AppAction::None, and leaves the cached contests, the sort state and the
\* identities as they were; the status message is as the frame's expiry
\* check, which runs before the popup, left it.
C9_CancelStep ==
    (IsFrame(op') /\ op'.arg.kind = "PopupCancel") =>
        /\ IsSome(show_vote_popup_info)
        /\ show_vote_popup_info' = None
        /\ action' = NoneAction
        /\ UNCHANGED <<contested_names, sort_column, sort_order, voting_identities,
                       user_identities>>
        /\ \/ error_message' = error_message
           \/ /\ IsSome(error_message)
              /\ num_seconds(Age(error_message, now)) > ExpirySeconds
              /\ error_message' = None

C9_CancelNoSideEffect == [][C9_CancelStep]_vars

\* Cancel was clicked with identities loaded, a message pending and contests
\* cached
C9_Witness ==
    /\ IsFrame(op) /\ op.arg.kind = "PopupCancel"
    /\ show_vote_popup_info = None
    /\ voting_identities # <<>>
    /\ IsSome(error_message)
    /\ contested_names # <<>>

\* C11: a failed read counts as an empty result.  After new() or a refresh
\* whose read of the contested names failed the cached list is empty; after
\* new() or refresh_on_arrival() whose read of the voting (user) identities
\* failed the voting (user) identity list is empty; a read that succeeded
\* leaves the list that was read.
C11_FailedReadIsEmpty ==
    /\ op.name = "new" =>
          /\ contested_names = (IF op.arg[1].ok THEN op.arg[1].list ELSE <<>>)
          /\ voting_identities = (IF op.arg[2].ok THEN op.arg[2].list ELSE <<>>)
          /\ user_identities = (IF op.arg[3].ok THEN op.arg[3].list ELSE <<>>)
    /\ (IsRefresh(op) /\ ~RefreshResult(op).ok) => contested_names = <<>>
    /\ op.name = "refresh_on_arrival" =>
          /\ voting_identities = (IF op.arg[1].ok THEN op.arg[1].list ELSE <<>>)
          /\ user_identities = (IF op.arg[2].ok THEN op.arg[2].list ELSE <<>>)

\* refresh_on_arrival() failed to read the voting identities while the popup
\* was open, and read the user identities
C11_Witness ==
    /\ op.name = "refresh_on_arrival"
    /\ ~op.arg[1].ok /\ op.arg[2].ok
    /\ voting_identities = <<>>
    /\ user_identities # <<>>
    /\ IsSome(show_vote_popup_info)

\* C12: once the cached contest of a name has a known end_time, no step
\* changes the cached end_time of that name to another value or back to
\* unknown.
C12_EndTimeStep ==
    \A i \in 1..Len(contested_names), j \in 1..Len(contested_names') :
        (NameOf(contested_names[i]) = NameOf(contested_names'[j])
            /\ IsSome(contested_names[i].end_time))
        => contested_names'[j].end_time = contested_names[i].end_time

C12_EndTimeImmutable == [][C12_EndTimeStep]_vars

IsQuery(a) == a = QueryAction

\* C13: right after a frame that returned the QueryDPNSContestedResources
\* task (no call on the screen has reported the query back), a frame with
\* another click on Refresh cannot return that task again.
C13_RefreshCoalesced ==
    (IsFrame(op) /\ IsQuery(action)) =>
        ~ENABLED (ui([kind |-> "TopRefresh"]) /\ IsQuery(action'))

IsVote(a) == a.kind = "BackendTask" /\ a.task.kind = "VoteOnDPNSName"

\* the vote choice behind a row button
ChoiceOfClick(rows, click) ==
    CASE click.kind = "RowLock" -> Lock
      [] click.kind = "RowAbstain" -> Abstain
      [] OTHER -> TowardsIdentity(Unwrap(rows[click.row].contestants)[click.contestant].id)

\* C14: the popup always holds an empty voter list; a click on a row button
\* stores the name of the clicked row and the button's choice; the vote task
\* a frame returns carries the name and choice the popup held, and its voters
\* are the one clicked identity, or all the voting identities in their stored
\* order, each once, for the All button.
C14_IntentStep ==
    /\ IsSome(show_vote_popup_info') => Unwrap(show_vote_popup_info').voters = <<>>
    /\ (IsFrame(op') /\ op'.arg.kind \in {"RowLock", "RowAbstain", "RowContestant"}) =>
          show_vote_popup_info' =
              Some(VoteOnDPNSName(NameOf(table'[op'.arg.row]),
                                  ChoiceOfClick(table', op'.arg), <<>>))
    /\ (IsFrame(op') /\ IsVote(action')) =>
          /\ IsSome(show_vote_popup_info)
          /\ action'.task.contested_name = Unwrap(show_vote_popup_info).contested_name
          /\ action'.task.vote_choice = Unwrap(show_vote_popup_info).vote_choice
          /\ op'.arg.kind \in {"PopupIdentity", "PopupAll"}
          /\ op'.arg.kind = "PopupIdentity" =>
                action'.task.voters = <<voting_identities[op'.arg.index]>>
          /\ op'.arg.kind = "PopupAll" => action'.task.voters = voting_identities

C14_VoteCarriesIntent == [][C14_IntentStep]_vars

\* the second of two identities voted towards a contestant of "a"
C14_Witness ==
    /\ IsFrame(op) /\ op.arg.kind = "PopupIdentity" /\ op.arg.index = 2
    /\ IsVote(action)
    /\ action.task.vote_choice = TowardsIdentity("i1")
    /\ action.task.contested_name = <<97>>
    /\ action.task.voters = <<"v2">>

\* C15: a frame that returns a vote task found the popup open and leaves it
\* closed, and a frame that finds the popup closed returns no vote task: one
\* opened popup gives at most one vote task.
C15_ConsumedStep ==
    IsFrame(op') =>
        /\ IsVote(action') => (IsSome(show_vote_popup_info) /\ show_vote_popup_info' = None)
        /\ show_vote_popup_info = None => ~IsVote(action')

C15_IntentConsumed == [][C15_ConsumedStep]_vars

\* All was clicked: the task went out with both identities, the popup is
\* closed
C15_Witness ==
    /\ IsFrame(op) /\ op.arg.kind = "PopupAll"
    /\ IsVote(action)
    /\ Len(action.task.voters) = 2
    /\ show_vote_popup_info = None

\* C16: a frame that finds no voting identity returns no vote task; its
\* popup has the two buttons that both close it, the first returning
\* AddScreen (load an Evonode identity) and Cancel returning None; every
\* vote task has at least one voter and all its voters are voting
\* identities.
C16_NoIdentityStep ==
    IsFrame(op') =>
        /\ voting_identities = <<>> =>
              /\ ~IsVote(action')
              /\ op'.arg.kind \notin {"PopupIdentity", "PopupAll"}
              /\ op'.arg.kind = "PopupLoad" =>
                    (show_vote_popup_info' = None /\ action' = LoadIdentityAction)
              /\ op'.arg.kind = "PopupCancel" =>
                    (show_vote_popup_info' = None /\ action' = NoneAction)
        /\ IsVote(action') =>
              /\ action'.task.voters # <<>>
              /\ \A i \in 1..Len(action'.task.voters) :
                    \E j \in 1..Len(voting_identities) :
                        action'.task.voters[i] = voting_identities[j]

C16_NoVoteWithoutIdentity == [][C16_NoIdentityStep]_vars

\* the popup was open with no voting identity and its first button was
\* clicked
C16_Witness ==
    /\ IsFrame(op) /\ op.arg.kind = "PopupLoad"
    /\ voting_identities = <<>>
    /\ action = LoadIdentityAction
    /\ show_vote_popup_info = None
    /\ contested_names # <<>>

====
